---- MODULE Spec2Model ----
(***************************************************************************)
(* Way-finding service (app.py): the graph built from nodes.csv/edges.csv, *)
(* the corridor-constrained route planner shortest_path_via_cxx, and the   *)
(* request handlers that use them.                                         *)
(*                                                                         *)
(* Labels are sequences of one-character strings, so that the corridor     *)
(* pattern c\d{2,3} is matched character by character.  Distances are      *)
(* integers; all nodes lie on the equator (lat = 0) with integer           *)
(* longitudes, where the haversine distance is |lon1 - lon2| in units of   *)
(* R * (one longitude unit in radians).                                    *)
(*                                                                         *)
(* SpecRoute: one api_path query over every graph of up to four nodes      *)
(* (the planner as a function of graph, start and end).                    *)
(* SpecIndex: two request threads, one index POST each, interleaved        *)
(* statement by statement over the graph object that load_graph caches.    *)
(*                                                                         *)
(* SpecCxx: one label of every spelling, classified by the planner, the   *)
(* nearest-anchor scan and the location picker.                            *)
(* SpecLoad: load_graph over hand-written tables (cells that are no        *)
(* number, dangling edge rows, negative distances).                        *)
(* SpecAdmin: two worker threads that serve api_add_node, api_add_edge,    *)
(* api_delete_edge and index GET requests, each split at its file          *)
(* accesses, with load_graph split the same way.                           *)
(*                                                                         *)
(* SpecEdges: one api_add_edge or api_delete_edge request per thread.      *)
(* SpecAuth: one client session of logins, logouts and admin requests,     *)
(* with and without a password hash configured.  In the other              *)
(* specifications no hash is configured and the admin routes are open.     *)
(*                                                                         *)
(* Edge weights are non-negative in every specification but SpecLoad, as   *)
(* api_add_edge writes them (line 500).                                    *)
(***************************************************************************)
EXTENDS Integers, Sequences, FiniteSets, TLC

\* ------------------------------------------------------------------ bounds
\* Edge weights of the graphs routed over are 0..MaxWeight.
MaxWeight == 2

\* The longitudes a user's position is drawn from are 0..MaxLon.
MaxLon == 2

\* Each worker thread of the admin model serves up to MaxRequests requests.
MaxRequests == 2

\* ------------------------------------------------------------------ labels
A == <<"A">>
B == <<"B">>
c01 == <<"c", "0", "1">>
c02 == <<"c", "0", "2">>
\* a label that is never a node of a graph
Z == <<"Z">>
temp_node == <<"_", "u", "s", "e", "r", "_", "l", "o", "c", "a", "t", "i", "o", "n", "_">>
YourLocation == <<"Y", "o", "u", "r", " ", "l", "o", "c", "a", "t", "i", "o", "n">>

Digits == {"0", "1", "2", "3", "4", "5", "6", "7", "8", "9"}

\* the labels a node record may carry, in the order the node table lists them
NodeOrder == <<A, c01, c02, B>>
RealLabels == {NodeOrder[i] : i \in DOMAIN NodeOrder}

Range(s) == {s[i] : i \in DOMAIN s}

\* re.fullmatch(r"c\d{2,3}", str(n))
\* re.match in place of re.fullmatch: only the start of the label is matched
is_cxx_prefix(n) ==
    /\ Len(n) >= 3
    /\ n[1] = "c"
    /\ \A i \in 2..3 : n[i] \in Digits

is_cxx(n) ==
    /\ Len(n) \in {3, 4}
    /\ n[1] = "c"
    /\ \A i \in 2..Len(n) : n[i] \in Digits

\* haversine_m, on the equator
haversine_m(lat1, lon1, lat2, lon2) ==
    IF lon2 >= lon1 THEN lon2 - lon1 ELSE lon1 - lon2

\* ------------------------------------------------------- networkx.Graph
\* nodes: the labels in insertion order; attrs: the attribute dict of the
\* nodes that have one; adj[u][v]: the weight of the edge u-v (symmetric).
EmptyGraph == [nodes |-> <<>>, attrs |-> <<>>, adj |-> <<>>]

NodeSet(g) == Range(g.nodes)

has_edge(g, u, v) == u \in DOMAIN g.adj /\ v \in DOMAIN g.adj[u]

\* G.add_node(n, lat=, lon=, level=)
add_node(g, n, lat, lon, level) ==
    [nodes |-> IF n \in NodeSet(g) THEN g.nodes ELSE Append(g.nodes, n),
     attrs |-> (n :> [lat |-> lat, lon |-> lon, level |-> level]) @@ g.attrs,
     adj   |-> IF n \in NodeSet(g) THEN g.adj ELSE (n :> <<>>) @@ g.adj]

\* a node created by add_edge has no attributes
TouchNode(g, n) ==
    IF n \in NodeSet(g) THEN g
    ELSE [g EXCEPT !.nodes = Append(g.nodes, n), !.adj = (n :> <<>>) @@ g.adj]

\* G.add_edge(u, v, weight=w): creates missing endpoints, replaces the weight
add_edge(g, u, v, w) ==
    LET g2 == TouchNode(TouchNode(g, u), v)
        au == (v :> w) @@ g2.adj[u]
        a1 == (u :> au) @@ g2.adj
        av == (u :> w) @@ a1[v]
    IN  [g2 EXCEPT !.adj = (v :> av) @@ a1]

\* g.subgraph(nbunch).copy(): labels of nbunch that are no nodes are ignored
subgraph(g, nbunch) ==
    LET keep == NodeSet(g) \cap nbunch
        Kept(n) == n \in keep
    IN  [nodes |-> SelectSeq(g.nodes, Kept),
         attrs |-> [n \in (DOMAIN g.attrs) \cap keep |-> g.attrs[n]],
         adj   |-> [u \in keep |-> [v \in (DOMAIN g.adj[u]) \cap keep |-> g.adj[u][v]]]]

\* ------------------------------------------------- networkx.dijkstra_path
\* The fringe is a heap of (distance, counter, node); the smallest
\* (distance, counter) is popped first.
\* a heap that pops the entry pushed first, whatever its distance
OldestIndex(fringe) ==
    CHOOSE i \in DOMAIN fringe : \A j \in DOMAIN fringe : fringe[i].c <= fringe[j].c

MinIndex(fringe) ==
    CHOOSE i \in DOMAIN fringe :
        \A j \in DOMAIN fringe :
            \/ fringe[i].d < fringe[j].d
            \/ fringe[i].d = fringe[j].d /\ fringe[i].c <= fringe[j].c

RemoveAt(s, i) == [k \in 1..(Len(s) - 1) |-> IF k < i THEN s[k] ELSE s[k + 1]]

\* the neighbours of v in the iteration order ord of the copied subgraph
Neighbours(H, v, ord) ==
    LET IsNbr(u) == u \in DOMAIN H.adj[v]
    IN  SelectSeq(ord, IsNbr)

\* for u, e in G_succ[v].items(): ...
RECURSIVE Relax(_, _, _, _)
Relax(H, v, nbrs, S) ==
    IF nbrs = <<>> \/ S.err THEN S
    ELSE LET u == Head(nbrs)
             vu_dist == S.dist[v] + H.adj[v][u]
         IN  IF u \in DOMAIN S.dist
             THEN IF vu_dist < S.dist[u]
                  THEN [S EXCEPT !.err = TRUE]
                  ELSE Relax(H, v, Tail(nbrs), S)
             ELSE IF u \notin DOMAIN S.seen \/ vu_dist < S.seen[u]
                  THEN Relax(H, v, Tail(nbrs),
                             [S EXCEPT !.seen = (u :> vu_dist) @@ S.seen,
                                       !.fringe = Append(S.fringe, [d |-> vu_dist, c |-> S.c, v |-> u]),
                                       !.c = S.c + 1,
                                       !.paths = (u :> Append(S.paths[v], u)) @@ S.paths])
                  ELSE Relax(H, v, Tail(nbrs), S)

\* while fringe: (d, _, v) = pop(fringe) ...
RECURSIVE DijkstraLoop(_, _, _, _)
DijkstraLoop(H, target, ord, S) ==
    IF S.err \/ S.fringe = <<>> THEN S
    ELSE LET i == MinIndex(S.fringe)
             e == S.fringe[i]
             rest == RemoveAt(S.fringe, i)
         IN  IF e.v \in DOMAIN S.dist
             THEN DijkstraLoop(H, target, ord, [S EXCEPT !.fringe = rest])
             ELSE LET S1 == [S EXCEPT !.fringe = rest, !.dist = (e.v :> e.d) @@ S.dist]
                  IN  IF e.v = target THEN S1
                      ELSE DijkstraLoop(H, target, ord,
                                        Relax(H, e.v, Neighbours(H, e.v, ord), S1))

Raise(name) == [exc |-> name, path |-> <<>>]

\* nx.dijkstra_path(H, source, target, weight="weight").  A source that is no
\* node raises NodeNotFound; early is TRUE for the library releases that
\* answer source = target before they look the source up.
dijkstra_path(H, source, target, ord, early) ==
    IF early /\ source = target THEN [exc |-> "none", path |-> <<target>>]
    ELSE IF source \notin NodeSet(H) THEN Raise("NodeNotFound")
    ELSE IF source = target THEN [exc |-> "none", path |-> <<target>>]
    ELSE LET S0 == [dist |-> <<>>, seen |-> (source :> 0),
                    fringe |-> <<[d |-> 0, c |-> 0, v |-> source]>>,
                    c |-> 1, paths |-> (source :> <<source>>), err |-> FALSE]
             S == DijkstraLoop(H, target, ord, S0)
         IN  IF S.err THEN Raise("ValueError")
             ELSE IF target \notin DOMAIN S.dist THEN Raise("NetworkXNoPath")
             ELSE [exc |-> "none", path |-> S.paths[target]]

\* ------------------------------------------------------------- routing
\* f"{a} -> {b} ({d:.1f} m)"
StepText(a, b, d) == <<a, b, d>>

\* the step loop with total = d in place of total += d
RECURSIVE StepLoopLastOnly(_, _, _, _)
StepLoopLastOnly(g, nodes, i, acc) ==
    IF i >= Len(nodes) THEN acc
    ELSE LET a == nodes[i]
             b == nodes[i + 1]
             d == g.adj[a][b]
         IN  StepLoopLastOnly(g, nodes, i + 1,
                              [steps |-> Append(acc.steps, [text |-> StepText(a, b, d), m |-> d]),
                               total |-> d])

\* for a, b in zip(nodes[:-1], nodes[1:]):
\*     d = g[a][b]["weight"]; total += d; steps.append((text, d))
RECURSIVE StepLoop(_, _, _, _)
StepLoop(g, nodes, i, acc) ==
    IF i >= Len(nodes) THEN acc
    ELSE LET a == nodes[i]
             b == nodes[i + 1]
             d == g.adj[a][b]
         IN  StepLoop(g, nodes, i + 1,
                      [steps |-> Append(acc.steps, [text |-> StepText(a, b, d), m |-> d]),
                       total |-> acc.total + d])

\* the value (None, [], 0.0)
NoPath == [exc |-> "none", is_none |-> TRUE, nodes |-> <<>>, steps |-> <<>>, total |-> 0]

\* an exception leaving shortest_path_via_cxx
Fault(name) == [exc |-> name, is_none |-> TRUE, nodes |-> <<>>, steps |-> <<>>, total |-> 0]

\* allowed = {start, end} with every node that is_cxx: a bug that leaves the
\* restriction out
AllowedEveryNode(start, end, g) == {start, end} \cup NodeSet(g)

\* allowed without allowed = {start, end}: the corridor nodes only
AllowedCorridorOnly(start, end, g) == {n \in NodeSet(g) : is_cxx(n)}

\* allowed = {start, end}; allowed.update([n for n in g.nodes if is_cxx(n)])
allowed_nodes(start, end, g) == {start, end} \cup {n \in NodeSet(g) : is_cxx(n)}

\* every arrangement of the set S in a sequence
RECURSIVE Perms(_)
Perms(S) ==
    IF S = {} THEN {<<>>}
    ELSE UNION {{<<x>> \o p : p \in Perms(S \ {x})} : x \in S}

\* the iteration orders of the copied subgraph H: g.subgraph(allowed) may iterate
\* a Python set, whose order is not fixed.  The source is settled first, so
\* its place among the neighbours of a node changes nothing: it is put last.
Orders(start, end, g) ==
    {p \o <<start>> : p \in Perms((allowed_nodes(start, end, g) \cap NodeSet(g)) \ {start})}

\* the planner without its except nx.NetworkXNoPath clause
shortest_path_uncaught(start, end, g, ord, early) ==
    LET allowed == allowed_nodes(start, end, g)
        H == subgraph(g, allowed)
        r == dijkstra_path(H, start, end, ord, early)
    IN  IF r.exc # "none" THEN Fault(r.exc)
        ELSE LET acc == StepLoop(g, r.path, 1, [steps |-> <<>>, total |-> 0])
             IN  [exc |-> "none", is_none |-> FALSE, nodes |-> r.path,
                  steps |-> acc.steps, total |-> acc.total]

shortest_path_via_cxx(start, end, g, ord, early) ==
    LET allowed == allowed_nodes(start, end, g)
        H == subgraph(g, allowed)
        r == dijkstra_path(H, start, end, ord, early)
    IN  IF r.exc = "NetworkXNoPath" THEN NoPath
        ELSE IF r.exc # "none" THEN Fault(r.exc)
        ELSE LET acc == StepLoop(g, r.path, 1, [steps |-> <<>>, total |-> 0])
             IN  [exc |-> "none", is_none |-> FALSE, nodes |-> r.path,
                  steps |-> acc.steps, total |-> acc.total]

\* ------------------------------------------------------ nodes.csv, edges.csv
\* A numeric cell of a table: num is FALSE when the text is no number.
Num(v) == [num |-> TRUE, val |-> v]
NotANumber == [num |-> FALSE, val |-> 0]

NodeRow(label, lon) == [label |-> label, lat |-> Num(0), lon |-> Num(lon), level |-> "ground"]
EdgeRow(f, t, d) == [from |-> f, to |-> t, distance |-> Num(d)]

\* the longitude the node table gives each label
NodeLon(n) == CASE n = A -> 1 [] n = c01 -> 0 [] n = c02 -> 2 [] OTHER -> 3

\* clean_nodes_df: rows whose lat or lon is no number are dropped
clean_nodes_df(df) ==
    LET Valid(row) == row.lat.num /\ row.lon.num
    IN  SelectSeq(df, Valid)

\* for _, row in nodes_df.iterrows(): G.add_node(label, lat=, lon=, level=)
RECURSIVE AddNodeRows(_, _)
AddNodeRows(g, rows) ==
    IF rows = <<>> THEN g
    ELSE LET row == Head(rows)
         IN  AddNodeRows(add_node(g, row.label, row.lat.val, row.lon.val, row.level),
                         Tail(rows))

\* the edge loop without its test "f in G.nodes and t in G.nodes"
RECURSIVE AddEdgeRowsUnchecked(_, _)
AddEdgeRowsUnchecked(g, rows) ==
    IF rows = <<>> THEN g
    ELSE LET row == Head(rows)
         IN  IF row.distance.num
             THEN AddEdgeRowsUnchecked(add_edge(g, row.from, row.to, row.distance.val),
                                       Tail(rows))
             ELSE AddEdgeRowsUnchecked(g, Tail(rows))

\* for _, row in edges_df.iterrows(): a row whose distance is no number or
\* whose endpoints are not both nodes adds nothing
RECURSIVE AddEdgeRows(_, _)
AddEdgeRows(g, rows) ==
    IF rows = <<>> THEN g
    ELSE LET row == Head(rows)
         IN  IF row.distance.num /\ row.from \in NodeSet(g) /\ row.to \in NodeSet(g)
             THEN AddEdgeRows(add_edge(g, row.from, row.to, row.distance.val), Tail(rows))
             ELSE AddEdgeRows(g, Tail(rows))

\* the rebuild branch of load_graph
BuildGraph(nodes_tbl, edges_tbl) ==
    AddEdgeRows(AddNodeRows(EmptyGraph, clean_nodes_df(nodes_tbl)), edges_tbl)

\* ------------------------------------------------------------------ state
VARIABLES
    nodes_csv,   \* the rows of nodes.csv
    edges_csv,   \* the rows of edges.csv
    mtime,       \* the modification times of the two files
    heap,        \* the networkx graphs built so far; a graph is named by its index
    cache,       \* _GRAPH_CACHE
    G,           \* the module global G: an index into heap
    th,          \* per request thread: position, arguments, locals, response
    ADMIN_PWHASH, \* the configured password hash, or none
    session      \* the client's Flask session

vars == <<nodes_csv, edges_csv, mtime, heap, cache, G, th, ADMIN_PWHASH, session>>

\* WAYFINDING_ADMIN_PWHASH is not set (line 39)
NoHash == [set |-> FALSE, of |-> <<>>]

\* a hash made of the password pw
HashOf(pw) == [set |-> TRUE, of |-> pw]

\* werkzeug.security.check_password_hash
check_password_hash(pwhash, password) == pwhash.set /\ pwhash.of = password

\* a session with no key is_admin: session.get("is_admin") is None
NoSession == [is_admin |-> FALSE]

\* a guard that lets every request through
RequireAdminOpen(pwhash, sess) == TRUE

\* require_admin returns (TRUE) or aborts with 403 (FALSE)
require_admin(pwhash, sess) == ~pwhash.set \/ sess.is_admin

Threads == {"t1", "t2"}

\* the labels a request may name: the real ones and one that is no node
QueryLabels == RealLabels \cup {Z}

\* the library releases differ only on a query with source = target
EarlyChoices(start, end) == IF start = end THEN BOOLEAN ELSE {FALSE}

\* _GRAPH_CACHE before the first load_graph: "graph": None
EmptyCache == [graph |-> 0, nodes_mtime |-> 0, edges_mtime |-> 0]

\* load_graph(force) over given cache, files and graphs: the cached graph when
\* the files are unchanged, else a newly built one, which replaces the cache
\* the cache test without the two mtime comparisons
CacheHitAnyMtime(force, c, mt) == ~force /\ c.graph # EmptyCache.graph

\* load_graph lines 113-118: the cached graph is current
CacheHit(force, c, mt) ==
    /\ ~force
    /\ c.graph # EmptyCache.graph
    /\ c.nodes_mtime = mt.nodes
    /\ c.edges_mtime = mt.edges

LoadGraph(force, c, hp, ntbl, etbl, mt) ==
    IF CacheHit(force, c, mt)
    THEN [graph |-> c.graph, heap |-> hp, cache |-> c]
    ELSE [graph |-> Len(hp) + 1,
          heap  |-> Append(hp, BuildGraph(ntbl, etbl)),
          cache |-> [graph |-> Len(hp) + 1,
                     nodes_mtime |-> mt.nodes, edges_mtime |-> mt.edges]]

load_graph(force) == LoadGraph(force, cache, heap, nodes_csv, edges_csv, mtime)

\* ------------------------------------------------------- request threads
NoRet == [exc |-> "none", is_none |-> TRUE, nodes |-> <<>>, steps |-> <<>>, total |-> 0]
NoResp == [status |-> 0, error |-> "", nodes |-> <<>>, segments |-> <<>>, total |-> 0]

Idle ==
    [pc |-> "idle", kind |-> "none", start |-> <<>>, end |-> <<>>,
     user_lon |-> 0, closest |-> <<>>, dist |-> 0,
     ret |-> NoRet, resp |-> NoResp,
     mtimes |-> [nodes |-> 0, edges |-> 0], nodes_df |-> <<>>, edges_df |-> <<>>,
     locations |-> <<>>,
     new_rows |-> <<>>, found |-> FALSE, served |-> 0, cached |-> 0,
     password |-> <<>>]

\* an exception no handler catches: Flask answers 500
Unhandled(name) == [NoResp EXCEPT !.status = 500, !.error = name]

\* api_path: GET /wayfinding/api/path?start=&end=
ApiPathResponse(start, end, ret) ==
    IF ret.exc # "none" THEN Unhandled(ret.exc)
    ELSE IF ret.is_none THEN [NoResp EXCEPT !.status = 404, !.error = "no_path"]
    ELSE [status |-> 200, error |-> "", nodes |-> ret.nodes,
          segments |-> ret.steps, total |-> ret.total]

ApiPath(t, start, end) ==
    /\ th[t].pc = "idle"
    /\ IF start = <<>> \/ end = <<>>
       THEN /\ th' = [th EXCEPT ![t] = [Idle EXCEPT !.pc = "done", !.kind = "api_path",
                          !.start = start, !.end = end,
                          !.resp = [NoResp EXCEPT !.status = 400,
                                                  !.error = "start and end required"]]]
            /\ UNCHANGED <<heap, cache>>
       ELSE \E early \in EarlyChoices(start, end) :
            \E ord \in Orders(start, end, load_graph(FALSE).heap[load_graph(FALSE).graph]) :
              LET lg == load_graph(FALSE)
                  ret == shortest_path_via_cxx(start, end, lg.heap[lg.graph], ord, early)
              IN  /\ heap' = lg.heap
                  /\ cache' = lg.cache
                  /\ th' = [th EXCEPT ![t] = [Idle EXCEPT !.pc = "done", !.kind = "api_path",
                                !.start = start, !.end = end, !.ret = ret,
                                !.resp = ApiPathResponse(start, end, ret)]]
    /\ UNCHANGED <<ADMIN_PWHASH, session, nodes_csv, edges_csv, mtime, G>>

\* ------------------------------------------------ the tables routed over
\* every node table that lists some of the labels, in the order of NodeOrder
RECURSIVE SubSeqs(_)
SubSeqs(s) ==
    IF s = <<>> THEN {<<>>}
    ELSE LET rest == SubSeqs(Tail(s))
         IN  rest \cup {<<Head(s)>> \o r : r \in rest}

NodeTables == {[i \in DOMAIN ls |-> NodeRow(ls[i], NodeLon(ls[i]))] : ls \in SubSeqs(NodeOrder)}

\* the pairs of rows i < j of a node table
Pairs(ntbl) == {<<i, j>> \in (DOMAIN ntbl) \X (DOMAIN ntbl) : i < j}

\* every edge table over a node table: at most one row per pair of its nodes,
\* with a distance in 0..MaxWeight
EdgeTables(ntbl) ==
    LET Table(ps, w) ==
            LET Has(p) == p \in ps
                all == SelectSeq([k \in 1..(Len(ntbl) * Len(ntbl)) |->
                                     <<((k - 1) \div Len(ntbl)) + 1, ((k - 1) % Len(ntbl)) + 1>>],
                                 Has)
            IN  [k \in DOMAIN all |-> EdgeRow(ntbl[all[k][1]].label, ntbl[all[k][2]].label, w[all[k]])]
    IN  {Table(ps, w) : <<ps, w>> \in
            UNION {{<<qs, x>> : x \in [qs -> 0..MaxWeight]} : qs \in SUBSET Pairs(ntbl)}}

\* the state after the module is imported: G, nodes_df = load_graph(force=True)
ImportedGraph(ntbl, etbl) ==
    LET mt == [nodes |-> 1, edges |-> 1]
        lg == LoadGraph(TRUE, EmptyCache, <<>>, ntbl, etbl, mt)
    IN  /\ nodes_csv = ntbl
        /\ edges_csv = etbl
        /\ mtime = mt
        /\ heap = lg.heap
        /\ cache = lg.cache
        /\ G = lg.graph
        /\ th = [t \in Threads |-> Idle]

\* the same with no password hash configured: the admin routes are open
Imported(ntbl, etbl) ==
    /\ ImportedGraph(ntbl, etbl)
    /\ ADMIN_PWHASH = NoHash
    /\ session = NoSession

\* ---------------------------------------------------------- route planner
\* One route query over every graph of up to four nodes.
InitRoute == \E ntbl \in NodeTables : \E etbl \in EdgeTables(ntbl) : Imported(ntbl, etbl)

NextRoute == \E start, end \in QueryLabels : ApiPath("t1", start, end)

SpecRoute == InitRoute /\ [][NextRoute]_vars

\* ------------------------------------------------------------ index: POST
\* a redirect to the form with a flashed message
Flash(msg) == [NoResp EXCEPT !.status = 302, !.error = msg]

\* render_template_string(TEMPLATE_RESULT, ...)
Rendered(path_nodes, segments, total) ==
    [status |-> 200, error |-> "", nodes |-> path_nodes, segments |-> segments, total |-> total]

\* the scan without its filter: every node is taken for an anchor
EveryNodeAnAnchor(g) == g.nodes

\* cxx_nodes = [n for n in G.nodes if re.fullmatch(r"c\d{2,3}", str(n))]
cxx_nodes(g) == SelectSeq(g.nodes, is_cxx)

\* the distance from the user's position to node n
UserDist(g, user_lat, user_lon, n) ==
    haversine_m(user_lat, user_lon, g.attrs[n].lat, g.attrs[n].lon)

\* min(cxx_nodes, key=...) that keeps the last of several nearest nodes
LastMin(g, ns, user_lat, user_lon) ==
    ns[CHOOSE i \in DOMAIN ns :
          \A j \in DOMAIN ns :
              \/ UserDist(g, user_lat, user_lon, ns[i]) < UserDist(g, user_lat, user_lon, ns[j])
              \/ /\ UserDist(g, user_lat, user_lon, ns[i]) = UserDist(g, user_lat, user_lon, ns[j])
                 /\ i >= j]

\* min(cxx_nodes, key=...): the first node of the list at the least distance
closest_node(g, ns, user_lat, user_lon) ==
    ns[CHOOSE i \in DOMAIN ns :
          \A j \in DOMAIN ns :
              \/ UserDist(g, user_lat, user_lon, ns[i]) < UserDist(g, user_lat, user_lon, ns[j])
              \/ /\ UserDist(g, user_lat, user_lon, ns[i]) = UserDist(g, user_lat, user_lon, ns[j])
                 /\ i <= j]

\* the end labels and positions a "use my location" request carries
EndLabels == {B, Z}
UserLons == 0..MaxLon

\* lines 290-321: G = load_graph(); the nearest corridor node and its distance
IndexAnchorClosest(t, user_lon, end) ==
    /\ th[t].pc = "idle"
    /\ LET lg == load_graph(FALSE)
           g == lg.heap[lg.graph]
           ns == cxx_nodes(g)
       IN  /\ heap' = lg.heap
           /\ cache' = lg.cache
           /\ G' = lg.graph
           /\ IF ns = <<>>
              THEN th' = [th EXCEPT ![t] = [Idle EXCEPT !.pc = "done", !.kind = "anchor",
                              !.user_lon = user_lon, !.end = end,
                              !.resp = Flash("No cXX/cXXX nodes available for routing.")]]
              ELSE LET closest == closest_node(g, ns, 0, user_lon)
                   IN  th' = [th EXCEPT ![t] = [Idle EXCEPT !.pc = "closest", !.kind = "anchor",
                                  !.user_lon = user_lon, !.end = end, !.closest = closest,
                                  !.dist = UserDist(g, 0, user_lon, closest)]]
    /\ UNCHANGED <<ADMIN_PWHASH, session, nodes_csv, edges_csv, mtime>>

\* line 325: G.add_node(temp_node, lat=user_lat, lon=user_lon, level="ground")
IndexAnchorAddNode(t) ==
    /\ th[t].pc = "closest"
    /\ heap' = [heap EXCEPT ![G] = add_node(heap[G], temp_node, 0, th[t].user_lon, "ground")]
    /\ th' = [th EXCEPT ![t].pc = "node"]
    /\ UNCHANGED <<ADMIN_PWHASH, session, nodes_csv, edges_csv, mtime, cache, G>>

\* line 326: G.add_edge(temp_node, closest, weight=dist)
IndexAnchorAddEdge(t) ==
    /\ th[t].pc = "node"
    /\ heap' = [heap EXCEPT ![G] = add_edge(heap[G], temp_node, th[t].closest, th[t].dist)]
    /\ th' = [th EXCEPT ![t].pc = "edge"]
    /\ UNCHANGED <<ADMIN_PWHASH, session, nodes_csv, edges_csv, mtime, cache, G>>

\* lines 329-332 and the except of line 344
IndexAnchorRoute(t) ==
    /\ th[t].pc = "edge"
    /\ \E ord \in Orders(temp_node, th[t].end, heap[G]) :
          LET ret == shortest_path_via_cxx(temp_node, th[t].end, heap[G], ord, FALSE)
          IN  th' = [th EXCEPT ![t] =
                        IF ret.exc # "none"
                        THEN [@ EXCEPT !.pc = "done", !.resp = Flash("Location error")]
                        ELSE IF ret.is_none
                        THEN [@ EXCEPT !.pc = "done", !.ret = ret,
                                       !.resp = Flash("No path found from your location")]
                        ELSE [@ EXCEPT !.pc = "routed", !.ret = ret]]
    /\ UNCHANGED <<ADMIN_PWHASH, session, nodes_csv, edges_csv, mtime, heap, cache, G>>

\* the rewrite done as an insert: the defect the module docstring names
PrependFirstSegment(g, path_nodes, segments) ==
    IF segments # <<>> /\ path_nodes # <<>> /\ path_nodes[1] = temp_node /\ Len(path_nodes) > 1
    THEN LET first_edge_dist == g.adj[temp_node][path_nodes[2]]
         IN  <<[text |-> StepText(YourLocation, path_nodes[2], first_edge_dist),
                m |-> first_edge_dist]>> \o segments
    ELSE segments

\* lines 335-337: segments[0] = (f"Your location -> ...", first_edge_dist)
RewriteFirstSegment(g, path_nodes, segments) ==
    IF segments # <<>> /\ path_nodes # <<>> /\ path_nodes[1] = temp_node /\ Len(path_nodes) > 1
    THEN LET first_edge_dist == g.adj[temp_node][path_nodes[2]]
         IN  [segments EXCEPT ![1] =
                 [text |-> StepText(YourLocation, path_nodes[2], first_edge_dist),
                  m |-> first_edge_dist]]
    ELSE segments

\* lines 335-343: rewrite the first segment, render the result
IndexAnchorRender(t) ==
    /\ th[t].pc = "routed"
    /\ th' = [th EXCEPT ![t].pc = "done",
                        ![t].resp = Rendered(th[t].ret.nodes,
                                             RewriteFirstSegment(heap[G], th[t].ret.nodes, th[t].ret.steps),
                                             th[t].ret.total)]
    /\ UNCHANGED <<ADMIN_PWHASH, session, nodes_csv, edges_csv, mtime, heap, cache, G>>

\* the locations the form offers: sorted(G.nodes) without the corridor nodes
locations(g) == {n \in NodeSet(g) : ~is_cxx(n)}

\* index POST with a start and an end picked in the form (lines 290, 348-364)
IndexPlain(t, start, end) ==
    /\ th[t].pc = "idle"
    /\ LET lg == load_graph(FALSE)
           g == lg.heap[lg.graph]
       IN  /\ start \in locations(g) /\ end \in locations(g)
           /\ heap' = lg.heap
           /\ cache' = lg.cache
           /\ G' = lg.graph
           /\ \E ord \in Orders(start, end, g) :
                 LET ret == shortest_path_via_cxx(start, end, g, ord, FALSE)
                     me == [Idle EXCEPT !.pc = "done", !.kind = "plain",
                                        !.start = start, !.end = end]
                 IN  th' = [th EXCEPT ![t] =
                        IF start = end
                        THEN [me EXCEPT !.resp = Flash("Start and End must be different.")]
                        ELSE IF ret.exc # "none"
                        THEN [me EXCEPT !.ret = ret, !.resp = Unhandled(ret.exc)]
                        ELSE IF ret.is_none
                        THEN [me EXCEPT !.ret = ret, !.resp = Flash("No path found")]
                        ELSE [me EXCEPT !.ret = ret,
                                        !.resp = Rendered(ret.nodes, ret.steps, ret.total)]]
    /\ UNCHANGED <<ADMIN_PWHASH, session, nodes_csv, edges_csv, mtime>>

\* the characters of the labels, in code point order
Chars ==
    <<"0", "1", "2", "3", "4", "5", "6", "7", "8", "9", "A", "B", "C", "Z", "_",
      "a", "c", "e", "i", "l", "n", "o", "r", "s", "t", "u">>

Ord(ch) == CHOOSE i \in DOMAIN Chars : Chars[i] = ch

\* a < b for two strings, as Python compares them
RECURSIVE StrLess(_, _)
StrLess(a, b) ==
    IF b = <<>> THEN FALSE
    ELSE IF a = <<>> THEN TRUE
    ELSE IF Head(a) # Head(b) THEN Ord(Head(a)) < Ord(Head(b))
    ELSE StrLess(Tail(a), Tail(b))

\* sorted(S) for a set of strings
RECURSIVE sorted(_)
sorted(S) ==
    IF S = {} THEN <<>>
    ELSE LET least == CHOOSE x \in S : \A y \in S \ {x} : StrLess(x, y)
         IN  <<least>> \o sorted(S \ {least})

\* a worker thread serves one request after another
Fresh(t) == [Idle EXCEPT !.served = th[t].served]

\* edges.csv is kept as its data rows. A file that has lost its header line
\* (opened with mode "w" and not yet written) begins with the mark NoHeader.
NoHeader == [from |-> <<>>, to |-> <<>>, distance |-> NotANumber]

HasHeader(file) == file = <<>> \/ Head(file) # NoHeader

\* the rows csv.reader yields, the header line apart
DataRows(file) == IF HasHeader(file) THEN file ELSE Tail(file)

\* pd.read_csv(ef) takes the first line for the header whatever it holds: the
\* rows after a data row taken for the header have no column "from", and the
\* edge loop of load_graph skips each of them on its KeyError
ReadEdgesCsv(file) == IF HasHeader(file) THEN file ELSE <<>>

\* index GET (lines 290, 366-368): G, nodes_df = load_graph(), then the page
\* with the location picker. load_graph takes the mtimes first (line 110) and
\* answers from the cache when they are the cached ones (lines 113-120).
IndexGetBegin(t) ==
    /\ th[t].pc = "idle"
    /\ IF CacheHit(FALSE, cache, mtime)
       THEN /\ G' = cache.graph
            /\ th' = [th EXCEPT ![t] = [Fresh(t) EXCEPT !.pc = "done", !.kind = "get",
                          !.mtimes = mtime,
                          !.resp = [NoResp EXCEPT !.status = 200],
                          !.locations = sorted(locations(heap[cache.graph]))]]
       ELSE /\ G' = G
            /\ th' = [th EXCEPT ![t] = [Fresh(t) EXCEPT !.pc = "lg_nodes", !.kind = "get",
                          !.mtimes = mtime]]
    /\ UNCHANGED <<ADMIN_PWHASH, session, nodes_csv, edges_csv, mtime, heap, cache>>

\* load_graph lines 123-125: nodes.csv read under the shared lock and cleaned
LoadReadNodes(t) ==
    /\ th[t].pc = "lg_nodes"
    /\ th' = [th EXCEPT ![t].pc = "lg_edges", ![t].nodes_df = clean_nodes_df(nodes_csv)]
    /\ UNCHANGED <<ADMIN_PWHASH, session, nodes_csv, edges_csv, mtime, heap, cache, G>>

\* load_graph lines 126-127: edges.csv read under the shared lock; pd.read_csv
\* raises EmptyDataError on a file of no lines, which no handler catches
LoadReadEdges(t) ==
    /\ th[t].pc = "lg_edges"
    /\ IF edges_csv = <<NoHeader>>
       THEN th' = [th EXCEPT ![t].pc = "done", ![t].resp = Unhandled("EmptyDataError")]
       ELSE th' = [th EXCEPT ![t].pc = "lg_build",
                             ![t].edges_df = ReadEdgesCsv(edges_csv)]
    /\ UNCHANGED <<ADMIN_PWHASH, session, nodes_csv, edges_csv, mtime, heap, cache, G>>

\* load_graph lines 129-156 and the rest of index GET: the graph is built from
\* the rows read, the cache takes it with the mtimes taken at the start
IndexGetFinish(t) ==
    /\ th[t].pc = "lg_build"
    /\ LET g == AddEdgeRows(AddNodeRows(EmptyGraph, th[t].nodes_df), th[t].edges_df)
       IN  /\ heap' = Append(heap, g)
           /\ cache' = [graph |-> Len(heap) + 1,
                        nodes_mtime |-> th[t].mtimes.nodes,
                        edges_mtime |-> th[t].mtimes.edges]
           /\ G' = Len(heap) + 1
           /\ th' = [th EXCEPT ![t].pc = "done",
                               ![t].resp = [NoResp EXCEPT !.status = 200],
                               ![t].locations = sorted(locations(g))]
    /\ UNCHANGED <<ADMIN_PWHASH, session, nodes_csv, edges_csv, mtime>>

\* ------------------------------------------------------- the admin API
\* Every admin route begins with require_admin() (lines 399, 435, 466, 513).
Json(status, error) == [NoResp EXCEPT !.status = status, !.error = error]

\* abort(403)
Forbidden(me) == [me EXCEPT !.pc = "done", !.resp = Json(403, "Forbidden")]

\* str.lower
LowerChar(ch) ==
    CASE ch = "A" -> "a" [] ch = "B" -> "b" [] ch = "C" -> "c" [] ch = "Z" -> "z"
      [] OTHER -> ch

lower(str) == [i \in DOMAIN str |-> LowerChar(str[i])]

\* the thread goes on to its next request, up to max requests
AgainUpTo(t, max) ==
    /\ th[t].pc = "done"
    /\ th[t].served + 1 < max
    /\ th' = [th EXCEPT ![t] = [Idle EXCEPT !.served = th[t].served + 1]]
    /\ UNCHANGED <<ADMIN_PWHASH, session, nodes_csv, edges_csv, mtime, heap, cache, G>>

Again(t) == AgainUpTo(t, MaxRequests)

\* api_add_node lines 435-453: the label is checked against nodes.csv, read
\* under the shared lock
ApiAddNodeCheck(t, label, lon) ==
    /\ th[t].pc = "idle"
    /\ LET me == [Fresh(t) EXCEPT !.kind = "add_node", !.start = label, !.user_lon = lon]
           df == clean_nodes_df(nodes_csv)
       IN  th' = [th EXCEPT ![t] =
              IF ~require_admin(ADMIN_PWHASH, session) THEN Forbidden(me)
              ELSE IF label = <<>>
              THEN [me EXCEPT !.pc = "done", !.resp = Json(400, "Missing label")]
              ELSE IF \E i \in DOMAIN df : lower(df[i].label) = lower(label)
              THEN [me EXCEPT !.pc = "done", !.resp = Json(400, "Label already exists")]
              ELSE [me EXCEPT !.pc = "an_append"]]
    /\ UNCHANGED <<ADMIN_PWHASH, session, nodes_csv, edges_csv, mtime, heap, cache, G>>

\* api_add_node lines 455-457: the row is appended under the exclusive lock
ApiAddNodeAppend(t) ==
    /\ th[t].pc = "an_append"
    /\ nodes_csv' = Append(nodes_csv, NodeRow(th[t].start, th[t].user_lon))
    /\ mtime' = [mtime EXCEPT !.nodes = @ + 1]
    /\ th' = [th EXCEPT ![t].pc = "an_inval", ![t].cached = cache.graph]
    /\ UNCHANGED <<ADMIN_PWHASH, session, edges_csv, heap, cache, G>>

\* api_add_node lines 460-461: _GRAPH_CACHE["graph"] = None and the answer
ApiAddNodeInvalidate(t) ==
    /\ th[t].pc = "an_inval"
    /\ cache' = [cache EXCEPT !.graph = EmptyCache.graph]
    /\ th' = [th EXCEPT ![t].pc = "done", ![t].resp = Json(200, "")]
    /\ UNCHANGED <<ADMIN_PWHASH, session, nodes_csv, edges_csv, mtime, heap, G>>

\* node_lookup: the last row of a label gives its coordinates
LookupLon(df, label) ==
    LET last == CHOOSE i \in DOMAIN df :
                    df[i].label = label /\ \A j \in DOMAIN df : df[j].label = label => j <= i
    IN  df[last].lon.val

\* api_add_edge lines 466-485 and 499-500: both labels must be nodes of
\* nodes.csv, read under the shared lock; the distance comes from node_lookup
\* (round(.., 1) leaves a whole number of metres as it is)
ApiAddEdgeNodes(t, from_node, to_node) ==
    /\ th[t].pc = "idle"
    /\ LET me == [Fresh(t) EXCEPT !.kind = "add_edge", !.start = from_node, !.end = to_node]
           df == clean_nodes_df(nodes_csv)
           known == {df[i].label : i \in DOMAIN df}
       IN  th' = [th EXCEPT ![t] =
              IF ~require_admin(ADMIN_PWHASH, session) THEN Forbidden(me)
              ELSE IF from_node = <<>> \/ to_node = <<>> \/ from_node = to_node
              THEN [me EXCEPT !.pc = "done", !.resp = Json(400, "Invalid edge.")]
              ELSE IF from_node \notin known \/ to_node \notin known
              THEN [me EXCEPT !.pc = "done",
                              !.resp = Json(400, "Unknown node(s). Save nodes first.")]
              ELSE [me EXCEPT !.pc = "ae_dedup",
                              !.dist = haversine_m(0, LookupLon(df, from_node),
                                                   0, LookupLon(df, to_node))]]
    /\ UNCHANGED <<ADMIN_PWHASH, session, nodes_csv, edges_csv, mtime, heap, cache, G>>

\* a row of the pair, in either direction
SamePair(row, a, b) == {row.from, row.to} = {a, b}

\* api_add_edge lines 487-496: edges.csv is searched for the pair under the
\* shared lock, which is released before the append
ApiAddEdgeDedup(t) ==
    /\ th[t].pc = "ae_dedup"
    /\ LET rows == DataRows(edges_csv)
       IN  th' = [th EXCEPT ![t] =
              IF \E i \in DOMAIN rows : SamePair(rows[i], th[t].start, th[t].end)
              THEN [th[t] EXCEPT !.pc = "done", !.resp = Json(200, "Edge already exists.")]
              ELSE [th[t] EXCEPT !.pc = "ae_append"]]
    /\ UNCHANGED <<ADMIN_PWHASH, session, nodes_csv, edges_csv, mtime, heap, cache, G>>

\* api_add_edge lines 502-504: the row is appended under the exclusive lock
ApiAddEdgeAppend(t) ==
    /\ th[t].pc = "ae_append"
    /\ edges_csv' = Append(edges_csv, EdgeRow(th[t].start, th[t].end, th[t].dist))
    /\ mtime' = [mtime EXCEPT !.edges = @ + 1]
    /\ th' = [th EXCEPT ![t].pc = "ae_inval", ![t].cached = cache.graph]
    /\ UNCHANGED <<ADMIN_PWHASH, session, nodes_csv, heap, cache, G>>

\* api_add_edge lines 507-508: _GRAPH_CACHE["graph"] = None and the answer
ApiAddEdgeInvalidate(t) ==
    /\ th[t].pc = "ae_inval"
    /\ cache' = [cache EXCEPT !.graph = EmptyCache.graph]
    /\ th' = [th EXCEPT ![t].pc = "done", ![t].resp = Json(200, "")]
    /\ UNCHANGED <<ADMIN_PWHASH, session, nodes_csv, edges_csv, mtime, heap, G>>

\* api_delete_edge lines 513-536: the rows to keep are collected under the
\* shared lock
ApiDeleteEdgeRead(t, from_node, to_node) ==
    /\ th[t].pc = "idle"
    /\ LET me == [Fresh(t) EXCEPT !.kind = "delete_edge", !.start = from_node,
                                   !.end = to_node]
           rows == DataRows(edges_csv)
           Keep(row) == ~SamePair(row, from_node, to_node)
       IN  th' = [th EXCEPT ![t] =
              IF ~require_admin(ADMIN_PWHASH, session) THEN Forbidden(me)
              ELSE IF from_node = <<>> \/ to_node = <<>>
              THEN [me EXCEPT !.pc = "done", !.resp = Json(400, "Missing edge data")]
              ELSE [me EXCEPT !.pc = "de_open",
                              !.new_rows = SelectSeq(rows, Keep),
                              !.found = \E i \in DOMAIN rows :
                                            SamePair(rows[i], from_node, to_node)]]
    /\ UNCHANGED <<ADMIN_PWHASH, session, nodes_csv, edges_csv, mtime, heap, cache, G>>

\* locked_file line 51 for mode "w": open() empties the file before the lock
\* is asked for
ApiDeleteEdgeOpen(t) ==
    /\ th[t].pc = "de_open"
    /\ edges_csv' = <<NoHeader>>
    /\ mtime' = [mtime EXCEPT !.edges = @ + 1]
    /\ th' = [th EXCEPT ![t].pc = "de_write", ![t].cached = cache.graph]
    /\ UNCHANGED <<ADMIN_PWHASH, session, nodes_csv, heap, cache, G>>

\* api_delete_edge lines 538-540: under the exclusive lock the header and the
\* kept rows are written from the start of the file, over as many lines as
\* were appended since the file was emptied
ApiDeleteEdgeWrite(t) ==
    /\ th[t].pc = "de_write"
    /\ LET appended == DataRows(edges_csv)
           written == IF HasHeader(edges_csv) THEN Len(th[t].new_rows)
                      ELSE Len(th[t].new_rows) + 1
       IN  edges_csv' = th[t].new_rows \o SubSeq(appended, written + 1, Len(appended))
    /\ mtime' = [mtime EXCEPT !.edges = @ + 1]
    /\ th' = [th EXCEPT ![t].pc = "de_inval"]
    /\ UNCHANGED <<ADMIN_PWHASH, session, nodes_csv, heap, cache, G>>

\* api_delete_edge lines 543-547: _GRAPH_CACHE["graph"] = None and the answer
ApiDeleteEdgeInvalidate(t) ==
    /\ th[t].pc = "de_inval"
    /\ cache' = [cache EXCEPT !.graph = EmptyCache.graph]
    /\ th' = [th EXCEPT ![t].pc = "done",
                        ![t].resp = IF th[t].found THEN Json(200, "")
                                    ELSE Json(404, "Edge not found")]
    /\ UNCHANGED <<ADMIN_PWHASH, session, nodes_csv, edges_csv, mtime, heap, G>>

\* Two worker threads serve admin requests and index GETs over a small map.
AdminLabels == {A, B}
AdminPairs == {<<A, c01>>, <<c01, A>>, <<A, B>>}

InitAdmin == Imported(<<NodeRow(A, 1), NodeRow(c01, 0)>>, <<>>)

NextAdmin ==
    \E t \in Threads :
        \/ Again(t)
        \/ \E label \in AdminLabels : ApiAddNodeCheck(t, label, NodeLon(label))
        \/ ApiAddNodeAppend(t)
        \/ ApiAddNodeInvalidate(t)
        \/ \E e \in AdminPairs : ApiAddEdgeNodes(t, e[1], e[2])
        \/ ApiAddEdgeDedup(t)
        \/ ApiAddEdgeAppend(t)
        \/ ApiAddEdgeInvalidate(t)
        \/ \E e \in AdminPairs : ApiDeleteEdgeRead(t, e[1], e[2])
        \/ ApiDeleteEdgeOpen(t)
        \/ ApiDeleteEdgeWrite(t)
        \/ ApiDeleteEdgeInvalidate(t)
        \/ IndexGetBegin(t)
        \/ LoadReadNodes(t)
        \/ LoadReadEdges(t)
        \/ IndexGetFinish(t)

SpecAdmin == InitAdmin /\ [][NextAdmin]_vars

\* --------------------------------------------- the tables of the index model
FullNodeTable == [i \in DOMAIN NodeOrder |-> NodeRow(NodeOrder[i], NodeLon(NodeOrder[i]))]

\* edges.csv as api_add_edge writes it: at most one row per pair of nodes, its
\* distance computed from the coordinates of the two nodes (lines 499-504)
ServerEdgeTables(ntbl) ==
    LET Table(ps) ==
            LET Has(p) == p \in ps
                all == SelectSeq([k \in 1..(Len(ntbl) * Len(ntbl)) |->
                                     <<((k - 1) \div Len(ntbl)) + 1, ((k - 1) % Len(ntbl)) + 1>>],
                                 Has)
            IN  [k \in DOMAIN all |->
                    EdgeRow(ntbl[all[k][1]].label, ntbl[all[k][2]].label,
                            haversine_m(ntbl[all[k][1]].lat.val, ntbl[all[k][1]].lon.val,
                                        ntbl[all[k][2]].lat.val, ntbl[all[k][2]].lon.val))]
    IN  {Table(ps) : ps \in SUBSET Pairs(ntbl)}

\* nodes.csv with the named locations only: no row is a corridor node
NamedNodeTable ==
    LET Named(row) == ~is_cxx(row.label)
    IN  SelectSeq(FullNodeTable, Named)

IndexNodeTables == {FullNodeTable, NamedNodeTable}

\* Two request threads, one request each, over the imported graph.
InitIndex ==
    \E ntbl \in IndexNodeTables : \E etbl \in ServerEdgeTables(ntbl) : Imported(ntbl, etbl)

NextIndex ==
    \E t \in Threads :
        \/ \E user_lon \in UserLons, end \in EndLabels : IndexAnchorClosest(t, user_lon, end)
        \/ IndexAnchorAddNode(t)
        \/ IndexAnchorAddEdge(t)
        \/ IndexAnchorRoute(t)
        \/ IndexAnchorRender(t)
        \/ \E start, end \in RealLabels \cup {temp_node} : IndexPlain(t, start, end)

SpecIndex == InitIndex /\ [][NextIndex]_vars

\* ------------------------------------------------- admin login
\* str.strip() for a string with blanks
RECURSIVE lstrip(_)
lstrip(str) == IF str # <<>> /\ Head(str) = " " THEN lstrip(Tail(str)) ELSE str

RECURSIVE rstrip(_)
rstrip(str) ==
    IF str # <<>> /\ str[Len(str)] = " " THEN rstrip(SubSeq(str, 1, Len(str) - 1)) ELSE str

strip(str) == rstrip(lstrip(str))

\* the password as admin_login reads it from the form (line 379)
FormPassword(str) == strip(str)

\* admin_login (lines 372-386), GET or POST with a password field
AdminLogin(t, method, password) ==
    /\ th[t].pc = "idle"
    /\ LET me == [Fresh(t) EXCEPT !.pc = "done", !.kind = "login", !.password = password]
           pw == FormPassword(password)
       IN  IF ~ADMIN_PWHASH.set
           THEN /\ th' = [th EXCEPT ![t] = Forbidden(me)]
                /\ session' = session
           ELSE IF method = "POST" /\ check_password_hash(ADMIN_PWHASH, pw)
           THEN /\ th' = [th EXCEPT ![t] = [me EXCEPT !.resp = Flash("Admin unlocked.")]]
                /\ session' = [session EXCEPT !.is_admin = TRUE]
           ELSE IF method = "POST"
           THEN /\ th' = [th EXCEPT ![t] = [me EXCEPT !.resp = Json(200, "Invalid password.")]]
                /\ session' = session
           ELSE /\ th' = [th EXCEPT ![t] = [me EXCEPT !.resp = Json(200, "")]]
                /\ session' = session
    /\ UNCHANGED <<ADMIN_PWHASH, nodes_csv, edges_csv, mtime, heap, cache, G>>

\* admin_logout (lines 389-393): session.pop("is_admin", None)
AdminLogout(t) ==
    /\ th[t].pc = "idle"
    /\ session' = NoSession
    /\ th' = [th EXCEPT ![t] = [Fresh(t) EXCEPT !.pc = "done", !.kind = "logout",
                                                !.resp = Flash("Logged out.")]]
    /\ UNCHANGED <<ADMIN_PWHASH, nodes_csv, edges_csv, mtime, heap, cache, G>>

\* add_node (lines 397-430): the admin page, drawn from load_graph()
AddNodePage(t) ==
    /\ th[t].pc = "idle"
    /\ LET me == [Fresh(t) EXCEPT !.pc = "done", !.kind = "add_node_page"]
           lg == load_graph(FALSE)
       IN  IF ~require_admin(ADMIN_PWHASH, session)
           THEN /\ th' = [th EXCEPT ![t] = Forbidden(me)]
                /\ UNCHANGED <<heap, cache>>
           ELSE /\ th' = [th EXCEPT ![t] = [me EXCEPT !.resp = Json(200, "")]]
                /\ heap' = lg.heap
                /\ cache' = lg.cache
    /\ UNCHANGED <<ADMIN_PWHASH, session, nodes_csv, edges_csv, mtime, G>>

\* One client session: logins, logouts and admin requests one after another,
\* with and without a password hash configured.
MaxSessionRequests == 4

Secret == <<"s">>

Passwords == {Secret, <<" ", "s">>, <<"s", " ">>, <<"x">>, <<>>}

InitAuth ==
    /\ ImportedGraph(<<NodeRow(A, 1), NodeRow(c01, 0)>>, <<>>)
    /\ ADMIN_PWHASH \in {NoHash, HashOf(Secret)}
    /\ session = NoSession

NextAuth ==
    \/ AgainUpTo("t1", MaxSessionRequests)
    \/ \E method \in {"GET", "POST"}, password \in Passwords :
           AdminLogin("t1", method, password)
    \/ AdminLogout("t1")
    \/ AddNodePage("t1")
    \/ ApiAddNodeCheck("t1", B, NodeLon(B))
    \/ ApiAddNodeAppend("t1")
    \/ ApiAddNodeInvalidate("t1")
    \/ \E e \in AdminPairs : ApiAddEdgeNodes("t1", e[1], e[2])
    \/ ApiAddEdgeDedup("t1")
    \/ ApiAddEdgeAppend("t1")
    \/ ApiAddEdgeInvalidate("t1")
    \/ \E e \in AdminPairs : ApiDeleteEdgeRead("t1", e[1], e[2])
    \/ ApiDeleteEdgeOpen("t1")
    \/ ApiDeleteEdgeWrite("t1")
    \/ ApiDeleteEdgeInvalidate("t1")

SpecAuth == InitAuth /\ [][NextAuth]_vars

\* ------------------------------------------------- writers of edges.csv
\* One api_add_edge or api_delete_edge request per thread, over every edge
\* table of the nodes A, c01 and B.
EdgeNodeTable == <<NodeRow(A, 1), NodeRow(c01, 0), NodeRow(B, 3)>>

EdgeRequests == {<<x, y>> \in {A, c01, B} \X {A, c01, B} : x # y}

InitEdges == \E etbl \in ServerEdgeTables(EdgeNodeTable) : Imported(EdgeNodeTable, etbl)

NextEdges ==
    \E t \in Threads :
        \/ \E e \in EdgeRequests : ApiAddEdgeNodes(t, e[1], e[2])
        \/ ApiAddEdgeDedup(t)
        \/ ApiAddEdgeAppend(t)
        \/ ApiAddEdgeInvalidate(t)
        \/ \E e \in EdgeRequests : ApiDeleteEdgeRead(t, e[1], e[2])
        \/ ApiDeleteEdgeOpen(t)
        \/ ApiDeleteEdgeWrite(t)
        \/ ApiDeleteEdgeInvalidate(t)

SpecEdges == InitEdges /\ [][NextEdges]_vars

\* ------------------------------------------------- the corridor predicate
\* One label, of every spelling over a few characters, put on a node between
\* A and B; the planner, the nearest-anchor scan and the location picker then
\* classify it.
MaxLabelLen == 4

CxxAlphabet == {"c", "C", "0", "7"}

RECURSIVE Strs(_)
Strs(n) ==
    IF n = 0 THEN {<<>>}
    ELSE LET shorter == Strs(n - 1)
         IN  shorter \cup {Append(x, ch) : x \in shorter, ch \in CxxAlphabet}

ProbeLabels ==
    (Strs(MaxLabelLen) \ {<<>>})
        \cup {<<"c", "1">>, <<"c", "1", "2", "3", "4">>, <<"c", "c", "1", "2">>,
              <<"C", "0", "1">>, <<"c", "0", "1">>, <<"c", "0", "0", "7">>}

InitCxx ==
    \E label \in ProbeLabels :
        Imported(<<NodeRow(A, 1), NodeRow(label, 0), NodeRow(B, 3)>>,
                 <<EdgeRow(A, label, 1), EdgeRow(label, B, 3)>>)

NextCxx ==
    \E t \in Threads :
        \/ ApiPath(t, A, B)
        \/ \E user_lon \in UserLons : IndexAnchorClosest(t, user_lon, B)
        \/ IndexGetBegin(t)

SpecCxx == InitCxx /\ [][NextCxx]_vars

\* ------------------------------------------------- tables written by hand
\* nodes.csv and edges.csv as any editor may leave them: cells that are no
\* number, edge rows that name a label without a node row, distances below 0.
MaxNodeRows == 2
MaxEdgeRows == 2

RawNodeRows ==
    {NodeRow(A, 1), NodeRow(c01, 0), [NodeRow(c01, 0) EXCEPT !.lon = NotANumber]}

RawEdgeRows ==
    {[from |-> e[1], to |-> e[2], distance |-> d] :
        e \in {<<A, c01>>, <<c01, A>>, <<A, Z>>, <<Z, c01>>},
        d \in {Num(-1), Num(1), NotANumber}}

RECURSIVE SeqsUpTo(_, _)
SeqsUpTo(S, n) ==
    IF n = 0 THEN {<<>>}
    ELSE LET shorter == SeqsUpTo(S, n - 1)
         IN  shorter \cup {Append(x, e) : x \in shorter, e \in S}

InitLoad ==
    \E ntbl \in SeqsUpTo(RawNodeRows, MaxNodeRows) :
        \E etbl \in SeqsUpTo(RawEdgeRows, MaxEdgeRows) : Imported(ntbl, etbl)

NextLoad ==
    \/ \E start, end \in {A, c01} : ApiPath("t1", start, end)
    \/ IndexGetBegin("t2")

SpecLoad == InitLoad /\ [][NextLoad]_vars

\* ------------------------------------------------- paths, for the claims
\* the simple paths of g from s that end in last and pass only through mid
RECURSIVE Extend(_, _, _)
Extend(g, mid, ps) ==
    LET more == {Append(p, v) : <<p, v>> \in
                    {<<p, v>> \in ps \X NodeSet(g) :
                        /\ v \in DOMAIN g.adj[p[Len(p)]]
                        /\ v \notin Range(p)
                        /\ (Len(p) > 1 => p[Len(p)] \in mid)}}
    IN  IF more \subseteq ps THEN ps ELSE Extend(g, mid, ps \cup more)

PathsBetween(g, s, e, mid) ==
    IF s \notin NodeSet(g) THEN {}
    ELSE {p \in Extend(g, mid, {<<s>>}) : p[Len(p)] = e}

CorridorPaths(g, s, e) == PathsBetween(g, s, e, {n \in NodeSet(g) : is_cxx(n)})
AnyPaths(g, s, e) == PathsBetween(g, s, e, NodeSet(g))

RECURSIVE PathCost(_, _)
PathCost(g, p) ==
    IF Len(p) < 2 THEN 0 ELSE g.adj[p[1]][p[2]] + PathCost(g, Tail(p))

RECURSIVE SumM(_)
SumM(steps) == IF steps = <<>> THEN 0 ELSE Head(steps).m + SumM(Tail(steps))

Intermediates(p) == {p[i] : i \in 2..(Len(p) - 1)}

\* the graph load_graph() returns while the files are unchanged
Canonical == heap[cache.graph]

\* thread t has answered a route query (api_path) between two labels
Routed(t) == th[t].pc = "done" /\ th[t].kind = "api_path"

\* C1: between two nodes of the graph, shortest_path_via_cxx never returns a
\* path with an intermediate node that is no corridor node, and it returns
\* (None, [], 0.0) when every path between them has such an intermediate.
C1_OnlyCorridorIntermediates ==
    \A t \in Threads :
        (Routed(t) /\ th[t].start \in NodeSet(Canonical) /\ th[t].end \in NodeSet(Canonical))
        => /\ ~th[t].ret.is_none => \A n \in Intermediates(th[t].ret.nodes) : is_cxx(n)
           /\ CorridorPaths(Canonical, th[t].start, th[t].end) = {} => th[t].ret = NoPath

\* start and end are joined, but only through a node that is no corridor
\* node, and the query answered no path
C1_Witness ==
    \E t \in Threads :
        /\ Routed(t)
        /\ AnyPaths(Canonical, th[t].start, th[t].end) # {}
        /\ CorridorPaths(Canonical, th[t].start, th[t].end) = {}
        /\ th[t].ret = NoPath

\* C2: when a corridor-only path joins start and end, the returned node
\* sequence is non-empty, begins with start, ends with end, and the returned
\* total is the sum of the distances of the returned segments.
C2_PathFoundAndTotalIsSum ==
    \A t \in Threads :
        (Routed(t) /\ CorridorPaths(Canonical, th[t].start, th[t].end) # {})
        => LET r == th[t].ret
           IN  /\ r.exc = "none" /\ ~r.is_none
               /\ r.nodes # <<>>
               /\ r.nodes[1] = th[t].start
               /\ r.nodes[Len(r.nodes)] = th[t].end
               /\ r.total = SumM(r.steps)

\* a returned route of three hops with a positive total
C2_Witness ==
    \E t \in Threads :
        /\ Routed(t)
        /\ ~th[t].ret.is_none
        /\ Len(th[t].ret.steps) = 3
        /\ th[t].ret.total = SumM(th[t].ret.steps)
        /\ th[t].ret.total > 1

\* the graph whose only nodes are A and B, joined by an edge, asked for A to B
DirectEdgeCase(t) ==
    /\ Routed(t)
    /\ NodeSet(Canonical) = {A, B}
    /\ has_edge(Canonical, A, B)
    /\ th[t].start = A /\ th[t].end = B

\* C3 as stated: on the graph whose only nodes are the non-corridor nodes A and
\* B, joined by an edge, shortest_path_via_cxx(A, B) returns (None, [], 0.0).
C3_DirectEdgeGivesNoPath ==
    \A t \in Threads : DirectEdgeCase(t) => th[t].ret = NoPath

\* C3 amended: on that graph shortest_path_via_cxx(A, B) returns the path
\* [A, B] with the single segment A -> B and the weight of the edge as total.
C3_DirectEdgeIsUsed ==
    \A t \in Threads :
        DirectEdgeCase(t)
        => LET d == Canonical.adj[A][B]
           IN  th[t].ret = [exc |-> "none", is_none |-> FALSE, nodes |-> <<A, B>>,
                            steps |-> <<[text |-> StepText(A, B, d), m |-> d]>>,
                            total |-> d]

C3_Witness == \E t \in Threads : DirectEdgeCase(t) /\ th[t].ret.nodes = <<A, B>>

\* C6: a returned path costs no more than any path from start to end whose
\* intermediate nodes are all corridor nodes.
C6_LeastCost ==
    \A t \in Threads :
        (Routed(t) /\ th[t].ret.exc = "none" /\ ~th[t].ret.is_none)
        => \A p \in CorridorPaths(Canonical, th[t].start, th[t].end) :
               th[t].ret.total <= PathCost(Canonical, p)

\* a returned path that beats a dearer corridor-only path with fewer hops
C6_Witness ==
    \E t \in Threads :
        /\ Routed(t)
        /\ ~th[t].ret.is_none
        /\ \E p \in CorridorPaths(Canonical, th[t].start, th[t].end) :
               /\ th[t].ret.total < PathCost(Canonical, p)
               /\ Len(p) < Len(th[t].ret.nodes)

\* C7: when start or end is no node of the graph, shortest_path_via_cxx returns
\* (None, [], 0.0) and api_path answers 404 no_path.
C7_MissingLabelGivesNoPath ==
    \A t \in Threads :
        (Routed(t) /\ (th[t].start \notin NodeSet(Canonical) \/ th[t].end \notin NodeSet(Canonical)))
        => /\ th[t].ret = NoPath
           /\ th[t].resp.status = 404
           /\ th[t].resp.error = "no_path"

\* C8: for a node s of the graph, shortest_path_via_cxx(s, s) returns the path
\* [s] with no segment and total 0.
C8_TrivialPath ==
    \A t \in Threads :
        (Routed(t) /\ th[t].start = th[t].end /\ th[t].start \in NodeSet(Canonical))
        => th[t].ret = [exc |-> "none", is_none |-> FALSE, nodes |-> <<th[t].start>>,
                        steps |-> <<>>, total |-> 0]

\* a query from a named node to itself, in a graph where it has a neighbour
C8_Witness ==
    \E t \in Threads :
        /\ Routed(t)
        /\ th[t].start = A /\ th[t].end = A
        /\ A \in NodeSet(Canonical)
        /\ DOMAIN Canonical.adj[A] # {}
        /\ th[t].ret.nodes = <<A>>

\* ------------------------------------------------------- anchor requests
\* the graph the two files describe
Original == BuildGraph(nodes_csv, edges_csv)

InFlight(t) == th[t].pc \in {"closest", "node", "edge", "routed"}
AnchorDone(t) == th[t].kind = "anchor" /\ th[t].pc = "done"
AnchorServed(t) == AnchorDone(t) /\ th[t].resp.status = 200

\* the responses of a "use my location" request that runs alone over graph g
AloneResponses(g, user_lon, end) ==
    LET ns == cxx_nodes(g)
        closest == closest_node(g, ns, 0, user_lon)
        g2 == add_edge(add_node(g, temp_node, 0, user_lon, "ground"),
                       temp_node, closest, UserDist(g, 0, user_lon, closest))
        Resp(ret) ==
            IF ret.exc # "none" THEN Flash("Location error")
            ELSE IF ret.is_none THEN Flash("No path found from your location")
            ELSE Rendered(ret.nodes, RewriteFirstSegment(g2, ret.nodes, ret.steps), ret.total)
    IN  IF ns = <<>> THEN {Flash("No cXX/cXXX nodes available for routing.")}
        ELSE {Resp(shortest_path_via_cxx(temp_node, end, g2, ord, FALSE)) :
                 ord \in Orders(temp_node, end, g2)}

\* C4: after an anchor route query the graph load_graph() returns has no
\* _user_location_ node and no edge to it, and a plain route query over it
\* gives what it gave before the anchor query.
C4_AnchorLeavesGraphUnchanged ==
    ((\E t \in Threads : AnchorDone(t)) /\ (\A t \in Threads : ~InFlight(t)))
    => /\ temp_node \notin NodeSet(Canonical)
       /\ \A n \in NodeSet(Canonical) : temp_node \notin DOMAIN Canonical.adj[n]
       /\ \A s, e \in RealLabels :
              \A ord \in Orders(s, e, Original) :
                  shortest_path_via_cxx(s, e, Canonical, ord, FALSE)
                      = shortest_path_via_cxx(s, e, Original, ord, FALSE)

\* C5: of two anchor requests that overlap, each gets the response it would
\* get running alone over the loaded graph.
C5_ConcurrentAnchorsIsolated ==
    \A t, u \in Threads :
        (t # u /\ AnchorDone(t) /\ th[u].kind = "anchor" /\ InFlight(u))
        => th[t].resp \in AloneResponses(Original, th[t].user_lon, th[t].end)

\* C9: a served anchor request whose path has N nodes returns N-1 segments.
C9_SegmentCount ==
    \A t \in Threads :
        AnchorServed(t) => Len(th[t].resp.segments) = Len(th[t].resp.nodes) - 1

\* a served anchor request over three hops, its first segment rewritten
C9_Witness ==
    \E t \in Threads :
        /\ AnchorServed(t)
        /\ Len(th[t].resp.nodes) = 4
        /\ Len(th[t].resp.segments) = 3
        /\ th[t].resp.segments[1].text[1] = YourLocation

\* C10: in a served anchor request of at least one hop, the first segment
\* starts from the user's location and carries the weight of the synthetic edge
\* the route went over, the later segments are those of the planner, and the
\* total is the sum of the segment distances.
C10_FirstSegmentRewritten ==
    \A t \in Threads :
        (AnchorServed(t) /\ Len(th[t].resp.nodes) > 1)
        => LET segs == th[t].resp.segments
               steps == th[t].ret.steps
           IN  /\ segs[1].text = StepText(YourLocation, th[t].resp.nodes[2], segs[1].m)
               /\ segs[1].m = steps[1].m
               /\ \A i \in 2..Len(segs) : segs[i] = steps[i]
               /\ th[t].resp.total = SumM(segs)

\* the place of node n in the iteration order of g.nodes
Place(g, n) == CHOOSE i \in DOMAIN g.nodes : g.nodes[i] = n

\* thread t is in an anchor request that has found its nearest corridor node
Anchored(t) == th[t].kind = "anchor" /\ th[t].closest # <<>>

\* the distance on the equator, written out
Apart(x, y) == IF x < y THEN y - x ELSE x - y

\* C11: the corridor node an anchor request attaches the synthetic node to is
\* at the least distance from the user's coordinates among the corridor nodes
\* of the graph, and of several at that distance it is the first in the
\* iteration order of the graph's nodes.
C11_NearestCorridorFirstOfTies ==
    \A t \in Threads :
        Anchored(t)
        => LET g == heap[G]
               c == th[t].closest
               d == Apart(th[t].user_lon, g.attrs[c].lon)
           IN  /\ c \in NodeSet(g) /\ is_cxx(c)
               /\ th[t].dist = d
               /\ \A n \in NodeSet(g) :
                      is_cxx(n) =>
                          /\ d <= Apart(th[t].user_lon, g.attrs[n].lon)
                          /\ Place(g, n) < Place(g, c) => d < Apart(th[t].user_lon, g.attrs[n].lon)
               /\ th[t].pc \in {"edge", "routed", "done"} => has_edge(g, temp_node, c)

\* a user as far from c01 as from c02 is attached to c01, the first of the two
C11_Witness ==
    \E t \in Threads :
        /\ Anchored(t)
        /\ th[t].pc = "edge"
        /\ th[t].closest = c01
        /\ Apart(th[t].user_lon, NodeLon(c01)) = Apart(th[t].user_lon, NodeLon(c02))

NoAnchorsMsg == "No cXX/cXXX nodes available for routing."
NoPathFromLocationMsg == "No path found from your location"

\* C12: an anchor request on a graph with no corridor node is answered with
\* the no-anchors message, which is neither of the two no-path messages, and
\* adds no synthetic node or edge to the graph.
C12_NoAnchors ==
    \A t \in Threads :
        (AnchorDone(t) /\ ~\E n \in NodeSet(Original) : is_cxx(n))
        => /\ th[t].resp = Flash(NoAnchorsMsg)
           /\ NoAnchorsMsg \notin {NoPathFromLocationMsg, "No path found"}
           /\ Canonical = Original
           /\ temp_node \notin NodeSet(heap[G])

\* an anchor request was refused for want of corridor nodes
C12_Witness ==
    \E t \in Threads :
        /\ AnchorDone(t)
        /\ NodeSet(Original) = {A, B}
        /\ th[t].resp.status = 302
        /\ th[t].resp.error = NoAnchorsMsg

\* C13: when an anchor request routes and no corridor-only path leads from the
\* synthetic node to the end label (the end may be no node at all), it is
\* answered "no path from your location", which is neither the plain no-path
\* message nor the location-error message.
C13_NoPathFromLocation ==
    [][\A t \in Threads :
          (/\ th[t].pc = "edge" /\ th'[t].pc # "edge"
           /\ CorridorPaths(heap[G], temp_node, th[t].end) = {})
          => /\ th'[t].pc = "done"
             /\ th'[t].resp = Flash(NoPathFromLocationMsg)
             /\ NoPathFromLocationMsg \notin {"No path found", "Location error"}]_vars

\* an anchor request to a label that is no node, and one to a node that no
\* corridor reaches, were both answered "no path from your location"
C13_Witness ==
    \E t, u \in Threads :
        /\ AnchorDone(t) /\ th[t].end = Z
        /\ th[t].resp = Flash(NoPathFromLocationMsg)
        /\ AnchorDone(u) /\ th[u].end = B
        /\ th[u].resp = Flash(NoPathFromLocationMsg)

\* C18: when an anchor request that follows earlier ones hands the graph to the
\* planner, the synthetic node has exactly one edge: the one to this request's
\* nearest corridor node, weighted by this request's distance.
C18_OneSyntheticEdge ==
    \A t \in Threads :
        (th[t].pc = "edge" /\ \A u \in Threads \ {t} : ~InFlight(u))
        => /\ DOMAIN heap[G].adj[temp_node] = {th[t].closest}
           /\ heap[G].adj[temp_node][th[t].closest] = th[t].dist

\* the labels made of a lowercase c and two or three digits, listed
CorridorLabels ==
    {<<"c", d1, d2>> : d1, d2 \in Digits} \cup {<<"c", d1, d2, d3>> : d1, d2, d3 \in Digits}

\* the label under test
Probe == nodes_csv[2].label

\* C17: a label is a corridor label exactly when it is a lowercase c followed
\* by two or three digits (c1, c1234, cc12 and C01 are not, c01 and c007 are),
\* and the planner, the nearest-anchor scan and the location picker all
\* classify a label that way.
C17_CorridorPredicate ==
    /\ \A n \in {<<"c", "1">>, <<"c", "1", "2", "3", "4">>, <<"c", "c", "1", "2">>,
                 <<"C", "0", "1">>} : ~is_cxx(n)
    /\ \A n \in {<<"c", "0", "1">>, <<"c", "0", "0", "7">>} : is_cxx(n)
    /\ is_cxx(Probe) <=> Probe \in CorridorLabels
    /\ \A t \in Threads :
          /\ Routed(t) => (th[t].resp.status = 200 <=> Probe \in CorridorLabels)
          /\ th[t].kind = "anchor" =>
                IF Probe \in CorridorLabels
                THEN th[t].pc = "closest" /\ th[t].closest = Probe
                ELSE th[t].pc = "done" /\ th[t].resp = Flash(NoAnchorsMsg)
          /\ th[t].kind = "get" =>
                (Probe \in Range(th[t].locations) <=> Probe \notin CorridorLabels)

\* c007 was routed through by the planner and left out of the location picker
C17_Witness ==
    /\ Probe = <<"c", "0", "0", "7">>
    /\ th["t1"].kind = "api_path" /\ th["t1"].resp.nodes = <<A, Probe, B>>
    /\ th["t2"].kind = "get" /\ th["t2"].locations = <<A, B>>

\* C14: every edge of a graph that load_graph built has a weight of 0 or more,
\* whatever the edge rows are.
C14_NonNegativeWeights ==
    \A i \in DOMAIN heap :
        \A u \in DOMAIN heap[i].adj :
            \A v \in DOMAIN heap[i].adj[u] : heap[i].adj[u][v] >= 0

\* the labels of the node rows that survive the cleaning
ValidLabels == {nodes_csv[i].label : i \in {k \in DOMAIN nodes_csv :
                                        nodes_csv[k].lat.num /\ nodes_csv[k].lon.num}}

\* C15: in a graph that load_graph built, the nodes are the labels of the valid
\* node rows and both ends of every edge are among them: an edge row that
\* names any other label adds neither an edge nor a node.
C15_EdgesJoinBuiltNodes ==
    \A i \in DOMAIN heap :
        /\ NodeSet(heap[i]) = ValidLabels
        /\ DOMAIN heap[i].adj = ValidLabels
        /\ \A u \in DOMAIN heap[i].adj : DOMAIN heap[i].adj[u] \subseteq ValidLabels

\* edge rows naming Z, which has no node row, and c01, whose only node row is
\* invalid, were read and the graph has the node A alone
C15_Witness ==
    /\ Len(edges_csv) = 2
    /\ edges_csv[1].from = Z /\ edges_csv[1].distance.num
    /\ edges_csv[2].to = c01 /\ edges_csv[2].from = A /\ edges_csv[2].distance.num
    /\ \E k \in DOMAIN nodes_csv : nodes_csv[k].label = c01
    /\ NodeSet(heap[G]) = {A}
    /\ th["t1"].pc = "done"

\* thread t has completed an admin write that changed a table
WroteTable(t) ==
    /\ th[t].pc = "done"
    /\ th[t].kind \in {"add_node", "add_edge", "delete_edge"}
    /\ th[t].resp = Json(200, "")

\* C19: once an api_add_node, api_add_edge or api_delete_edge that changed a
\* table has completed, load_graph() does not answer with the graph that was
\* cached before the write: whenever it answers from the cache, the cached
\* graph is a later one, built from the tables as they now are.
C19_WriteInvalidatesCache ==
    \A t \in Threads :
        (WroteTable(t) /\ CacheHit(FALSE, cache, mtime))
        => /\ load_graph(FALSE).graph # th[t].cached
           /\ heap[load_graph(FALSE).graph]
                  = BuildGraph(nodes_csv, ReadEdgesCsv(edges_csv))

\* after a completed write a GET rebuilt the graph, and the cache now answers
\* with that new graph
C19_Witness ==
    \E t, u \in Threads :
        /\ WroteTable(t) /\ th[t].kind = "add_edge"
        /\ th[u].kind = "get" /\ th[u].pc = "done"
        /\ CacheHit(FALSE, cache, mtime)
        /\ cache.graph # th[t].cached
        /\ has_edge(heap[cache.graph], A, c01)
        /\ ~has_edge(heap[th[t].cached], A, c01)

\* C20: whatever the interleaving of api_add_edge requests, edges.csv never
\* holds two rows for the same pair of endpoints, in either direction.
C20_NoDuplicateEdgeRows ==
    LET rows == DataRows(edges_csv)
    IN  \A i, j \in DOMAIN rows :
            i < j => ~SamePair(rows[i], rows[j].from, rows[j].to)

\* edges.csv has a row for the pair a, b
HasRow(a, b) == \E i \in DOMAIN DataRows(edges_csv) : SamePair(DataRows(edges_csv)[i], a, b)

\* C21: when an api_delete_edge request and an api_add_edge request for
\* another pair of endpoints have both completed, however their steps were
\* interleaved, edges.csv has a row for the added pair and none for the
\* deleted pair.
C21_NoLostUpdate ==
    \A t, u \in Threads :
        (/\ th[t].pc = "done" /\ th[t].kind = "delete_edge"
         /\ th[u].pc = "done" /\ th[u].kind = "add_edge" /\ th[u].resp = Json(200, "")
         /\ {th[t].start, th[t].end} # {th[u].start, th[u].end})
        => /\ HasRow(th[u].start, th[u].end)
           /\ ~HasRow(th[t].start, th[t].end)

\* the step in which thread t takes up a request of the given kinds
Takes(t, kinds) == th[t].pc = "idle" /\ th'[t].kind \in kinds

AdminKinds == {"add_node_page", "add_node", "add_edge", "delete_edge"}

\* an admin request taken up without the flag is answered 403 and changes
\* neither table nor the graph cache
RejectedWithoutFlag ==
    \A t \in Threads :
        (Takes(t, AdminKinds) /\ ~session.is_admin)
        => /\ th'[t].pc = "done"
           /\ th'[t].resp.status = 403
           /\ UNCHANGED <<nodes_csv, edges_csv, mtime, cache, heap>>

\* a logout leaves the flag unset
LogoutClearsFlag == \A t \in Threads : Takes(t, {"logout"}) => ~session'.is_admin

\* C22 as stated: with a password hash configured, an admin request of a
\* session without the is_admin flag is answered 403 and changes nothing, the
\* flag is set only by a login whose password matches the hash, and a logout
\* unsets it.
C22_AdminOnlyAfterMatchingLogin ==
    [][ADMIN_PWHASH.set
       => /\ RejectedWithoutFlag
          /\ LogoutClearsFlag
          /\ (~session.is_admin /\ session'.is_admin)
             => \E t \in Threads :
                    /\ Takes(t, {"login"})
                    /\ check_password_hash(ADMIN_PWHASH, th'[t].password)]_vars

\* C22, amended: the same, where the flag is set only by a login whose
\* password matches the hash once the blanks around it are stripped.
C22_AdminOnlyAfterStrippedLogin ==
    [][ADMIN_PWHASH.set
       => /\ RejectedWithoutFlag
          /\ LogoutClearsFlag
          /\ (~session.is_admin /\ session'.is_admin)
             => \E t \in Threads :
                    /\ Takes(t, {"login"})
                    /\ check_password_hash(ADMIN_PWHASH, strip(th'[t].password))]_vars

\* with a hash configured, node B was added (after a login), the flag is unset
\* again (after a logout) and an api_add_edge was then answered 403
C22_Witness ==
    /\ ADMIN_PWHASH.set
    /\ \E i \in DOMAIN nodes_csv : nodes_csv[i].label = B
    /\ ~session.is_admin
    /\ th["t1"].kind = "add_edge"
    /\ th["t1"].resp.status = 403

====
